---- MODULE Spec2Model ----
(***************************************************************************)
(* Model of the upload relay of src/index.js: the handler of               *)
(* POST /api/proxy-upload, from the arrival of a parsed multipart request  *)
(* to the response, with the two outbound calls it may make (repository    *)
(* provisioning and commit) and every outcome those calls can have.        *)
(*                                                                         *)
(* Conventions.                                                            *)
(*  - A JavaScript value that may be undefined is a sequence of length 0   *)
(*    (undefined) or 1 (the value): <<>> is undefined, <<"">> the empty    *)
(*    string, <<"alice">> the string "alice".                              *)
(*  - Texts that the code inspects character by character (file names,     *)
(*    response bodies) are sequences of one-character strings; Str turns   *)
(*    them into the string they spell.                                     *)
(*  - Console output is not modelled.                                      *)
(*  - src/index.js holds the handler twice, at lines 18-273 and, without   *)
(*    its console output, at lines 297-503; the line numbers below are     *)
(*    those of the first.                                                  *)
(***************************************************************************)
EXTENDS Integers, Sequences, FiniteSets, TLC

VARIABLES
    pc,           \* per handler: "start", "awaitCreate", "awaitCommit", "done"
    req,          \* per handler: the parsed request (req.body fields, req.files)
    results,      \* per handler: the local `results`
    operations,   \* per handler: the local `operations`
    commitUrl,    \* per handler: the local `commitUrl` (undefined until assigned)
    requestBody,  \* per handler: the local `requestBody` (undefined until assigned)
    net,          \* the outbound HTTP traffic, in order: requests and their settlements
    res           \* per handler: the responses sent on `res`, in order

vars == <<pc, req, results, operations, commitUrl, requestBody, net, res>>

----------------------------------------------------------------------------
(* Bounds of the model *)

MaxFiles == 2
MaxBodyLen == 1
MaxBufferLen == 4

(* Program constants *)

MaxFileSize == 100 * 1024 * 1024

----------------------------------------------------------------------------
(* Values *)

SeqsUpTo(S, n) == UNION {[1..k -> S] : k \in 0..n}

Undefined == <<>>
Some(v) == <<v>>
Optional(S) == {Undefined} \cup {Some(v) : v \in S}

\* JavaScript truthiness of a possibly undefined string
Truthy(o) == o # Undefined /\ o[1] # ""

\* A possibly undefined string inside a template literal
Interp(o) == IF o = Undefined THEN "undefined" ELSE o[1]

RECURSIVE Str(_)
Str(cs) == IF cs = <<>> THEN "" ELSE cs[1] \o Str(Tail(cs))

BodyChars == {"[", "]", "1"}

\* String.prototype.trim on a sequence of characters
RECURSIVE TrimStart(_)
TrimStart(cs) ==
    IF cs # <<>> /\ cs[1] = " " THEN TrimStart(Tail(cs)) ELSE cs

RECURSIVE TrimEnd(_)
TrimEnd(cs) ==
    IF cs # <<>> /\ cs[Len(cs)] = " " THEN TrimEnd(SubSeq(cs, 1, Len(cs) - 1)) ELSE cs

trim(cs) == TrimEnd(TrimStart(cs))

----------------------------------------------------------------------------
(* Buffer.toString('base64') *)

Base64Alphabet ==
    << "A","B","C","D","E","F","G","H","I","J","K","L","M","N","O","P",
       "Q","R","S","T","U","V","W","X","Y","Z","a","b","c","d","e","f",
       "g","h","i","j","k","l","m","n","o","p","q","r","s","t","u","v",
       "w","x","y","z","0","1","2","3","4","5","6","7","8","9","+","/" >>

Base64Char(n) == Base64Alphabet[n + 1]

\* Variant: the buffer is written out in hexadecimal
RECURSIVE toStringBase64_hex(_)
toStringBase64_hex(bs) ==
    IF bs = <<>> THEN <<>>
    ELSE LET digits == << "0","1","2","3","4","5","6","7",
                          "8","9","a","b","c","d","e","f" >>
         IN << digits[(bs[1] \div 16) + 1], digits[(bs[1] % 16) + 1] >>
                \o toStringBase64_hex(Tail(bs))

RECURSIVE toStringBase64(_)
toStringBase64(bs) ==
    IF Len(bs) = 0 THEN <<>>
    ELSE IF Len(bs) = 1 THEN
        << Base64Char(bs[1] \div 4),
           Base64Char((bs[1] % 4) * 16), "=", "=" >>
    ELSE IF Len(bs) = 2 THEN
        << Base64Char(bs[1] \div 4),
           Base64Char((bs[1] % 4) * 16 + bs[2] \div 16),
           Base64Char((bs[2] % 16) * 4), "=" >>
    ELSE
        << Base64Char(bs[1] \div 4),
           Base64Char((bs[1] % 4) * 16 + bs[2] \div 16),
           Base64Char((bs[2] % 16) * 4 + bs[3] \div 64),
           Base64Char(bs[3] % 64) >> \o toStringBase64(SubSeq(bs, 4, Len(bs)))

----------------------------------------------------------------------------
(* The file loop *)

\* The names a part can come with: none, "", " ", "a", " a "
FileNames == Optional({<<>>, <<" ">>, <<"a">>, <<" ", "a", " ">>})

\* The sizes on either side of the limit
FileSizes == {MaxFileSize, MaxFileSize + 1}

\* The leading bytes of a file ("hi"), all that is followed of its content
FileBuffers == {<<104, 105>>}

UploadedFiles ==
    [originalname : FileNames, size : FileSizes, buffer : FileBuffers]

\* file.originalname as it is put into an outcome: a string or undefined
NameOf(file) ==
    IF file.originalname = Undefined THEN Undefined
    ELSE Some(Str(file.originalname[1]))

\* Variant: the name is tested without trimming
InvalidName_untrimmed(file) ==
    \/ file.originalname = Undefined
    \/ (file.originalname # Undefined /\ file.originalname[1] = <<>>)

\* !file.originalname || file.originalname.trim() === ''
InvalidName(file) ==
    \/ file.originalname = Undefined
    \/ (file.originalname # Undefined /\ file.originalname[1] = <<>>)
    \/ (file.originalname # Undefined /\ trim(file.originalname[1]) = <<>>)

\* Variant: the limit itself is refused
TooLarge_inclusive(file) == file.size >= MaxFileSize

\* file.size > 100 * 1024 * 1024
TooLarge(file) == file.size > MaxFileSize

\* Variant: a file with an invalid name is reported but not skipped
ProcessFile_noContinue(file) ==
    IF TooLarge(file) THEN
        [result |-> [file |-> NameOf(file), success |-> FALSE,
                     error |-> "Arquivo muito grande (>100MB)"],
         ops |-> <<>>]
    ELSE
        LET content == toStringBase64(file.buffer) IN
        [result |-> IF InvalidName(file)
                    THEN [file |-> Some("arquivo-sem-nome"), success |-> FALSE,
                          error |-> "Nome de arquivo inválido"]
                    ELSE [file |-> NameOf(file), success |-> TRUE,
                          method |-> "commit", type |-> "base64",
                          size |-> file.size, contentLength |-> Len(content)],
         ops |-> << [operation |-> "addOrUpdate",
                     path |-> IF file.originalname = Undefined THEN ""
                              ELSE Str(trim(file.originalname[1])),
                     content |-> content,
                     encoding |-> "base64"] >>]

\* One iteration of the loop: the outcome pushed, and the operation pushed if any
ProcessFile(file) ==
    IF TooLarge(file) THEN
        [result |-> [file |-> NameOf(file), success |-> FALSE,
                     error |-> "Arquivo muito grande (>100MB)"],
         ops |-> <<>>]
    ELSE IF InvalidName(file) THEN
        [result |-> [file |-> IF file.originalname = Undefined
                                  \/ file.originalname[1] = <<>>
                              THEN Some("arquivo-sem-nome")
                              ELSE NameOf(file),
                     success |-> FALSE,
                     error |-> "Nome de arquivo inválido"],
         ops |-> <<>>]
    ELSE
        LET content == toStringBase64(file.buffer) IN
        [result |-> [file |-> NameOf(file), success |-> TRUE,
                     method |-> "commit", type |-> "base64",
                     size |-> file.size, contentLength |-> Len(content)],
         ops |-> << [operation |-> "addOrUpdate",
                     path |-> Str(trim(file.originalname[1])),
                     content |-> content,
                     encoding |-> "base64"] >>]

\* Variant: the loop stops at the first file rejected
RECURSIVE ProcessFiles_aborting(_)
ProcessFiles_aborting(files) ==
    IF files = <<>> THEN [results |-> <<>>, operations |-> <<>>]
    ELSE LET this == ProcessFile(files[1]) IN
         IF ~this.result.success
         THEN [results |-> <<this.result>>, operations |-> <<>>]
         ELSE LET rest == ProcessFiles_aborting(Tail(files)) IN
              [results |-> <<this.result>> \o rest.results,
               operations |-> this.ops \o rest.operations]

\* Variant: each outcome is put at the front of `results`
RECURSIVE ProcessFiles_unshift(_)
ProcessFiles_unshift(files) ==
    IF files = <<>> THEN [results |-> <<>>, operations |-> <<>>]
    ELSE LET n == Len(files)
             before == ProcessFiles_unshift(SubSeq(files, 1, n - 1))
             this == ProcessFile(files[n])
         IN [results |-> <<this.result>> \o before.results,
             operations |-> before.operations \o this.ops]

\* Variant: a path already in the batch is not added again
RECURSIVE ProcessFiles_dedup(_)
ProcessFiles_dedup(files) ==
    IF files = <<>> THEN [results |-> <<>>, operations |-> <<>>]
    ELSE LET n == Len(files)
             before == ProcessFiles_dedup(SubSeq(files, 1, n - 1))
             this == ProcessFile(files[n])
             known == {before.operations[i].path : i \in 1..Len(before.operations)}
         IN [results |-> Append(before.results, this.result),
             operations |-> IF this.ops # <<>> /\ this.ops[1].path \in known
                            THEN before.operations
                            ELSE before.operations \o this.ops]

\* The whole loop over req.files, in order
RECURSIVE ProcessFiles(_)
ProcessFiles(files) ==
    IF files = <<>> THEN [results |-> <<>>, operations |-> <<>>]
    ELSE LET n == Len(files)
             before == ProcessFiles(SubSeq(files, 1, n - 1))
             this == ProcessFile(files[n])
         IN [results |-> Append(before.results, this.result),
             operations |-> before.operations \o this.ops]

----------------------------------------------------------------------------
(* Requests *)

Tokens == Optional({"hf_token"})
Usernames == Optional({"alice"})
Repos == Optional({"", "demo"})
SpaceIds == Optional({"", "org/demo-space"})
FileLists == Optional(SeqsUpTo(UploadedFiles, MaxFiles))

Requests ==
    [token : Tokens, username : Usernames, repo : Repos, spaceId : SpaceIds,
     files : FileLists]

\* Variant: the token is not required
MissingParameters_noToken(q) ==
    \/ ~Truthy(q.username)
    \/ ~Truthy(q.repo)
    \/ q.files = Undefined
    \/ (q.files # Undefined /\ Len(q.files[1]) = 0)

\* !token || !username || !repo || !files || files.length === 0
MissingParameters(q) ==
    \/ ~Truthy(q.token)
    \/ ~Truthy(q.username)
    \/ ~Truthy(q.repo)
    \/ q.files = Undefined
    \/ (q.files # Undefined /\ Len(q.files[1]) = 0)

\* Variant: an empty batch is not stopped
NoValidFiles_never(ops) == FALSE

\* operations.length === 0
NoValidFiles(ops) == Len(ops) = 0

\* spaceId ? 'space' : 'repository'
\* Variant: the target is told by the presence of spaceId, not by its truth
Target_presence(q) == IF q.spaceId # Undefined THEN "space" ELSE "repository"

Target(q) == IF Truthy(q.spaceId) THEN "space" ELSE "repository"

----------------------------------------------------------------------------
(* Outbound calls *)

CreateUrl == "https://huggingface.co/api/repos/create"

\* Variant: a space is committed to through the repository endpoint
SpaceCommitUrl_repo(q) ==
    "https://huggingface.co/api/repos/" \o Interp(q.spaceId) \o "/commit/main"

SpaceCommitUrl(q) ==
    "https://huggingface.co/api/spaces/" \o Interp(q.spaceId) \o "/commit/main"

RepoCommitUrl(q) ==
    "https://huggingface.co/api/repos/" \o Interp(q.username) \o "/"
        \o Interp(q.repo) \o "/commit/main"

Headers(q) ==
    [Authorization |-> "Bearer " \o Interp(q.token),
     ContentType |-> "application/json",
     UserAgent |-> "HF-Visual-Editor/1.0"]

UploadTitle(ops) ==
    "Upload de " \o ToString(Len(ops)) \o " arquivo(s) via Visual Editor"

\* operations.map(op => `- ${op.path}`).join('\n')
RECURSIVE PathLines(_)
PathLines(ops) ==
    IF ops = <<>> THEN ""
    ELSE IF Len(ops) = 1 THEN "- " \o ops[1].path
    ELSE "- " \o ops[1].path \o "\n" \o PathLines(Tail(ops))

SpaceBody(ops) ==
    [files |-> [i \in 1..Len(ops) |->
                    [path |-> ops[i].path, content |-> ops[i].content,
                     encoding |-> "base64"]],
     summary |-> UploadTitle(ops)]

RepoBody(ops) ==
    [operations |-> ops,
     commit_title |-> UploadTitle(ops),
     commit_message |->
        "Adicionados/atualizados os seguintes arquivos:\n" \o PathLines(ops)]

CreateBody(q) == [name |-> q.repo, private |-> FALSE]

Request(r, call, url, q, body) ==
    [req |-> r, ev |-> "request", call |-> call, method |-> "POST",
     url |-> url, headers |-> Headers(q), body |-> body]

Settled(r, call, outcome) ==
    [req |-> r, ev |-> "settled", call |-> call, outcome |-> outcome]

(* What a call can come to: fetch rejects; or it resolves with a status and  *)
(* reading the body then rejects or yields the text.                         *)

Errors == {[message |-> "socket hang up", stack |-> "FetchError: socket hang up"]}
NoError == [message |-> "", stack |-> ""]

FetchThrows(e) == [type |-> "fetchThrows", status |-> 0, text |-> <<>>, error |-> e]
TextThrows(s, e) == [type |-> "textThrows", status |-> s, text |-> <<>>, error |-> e]
Responds(s, t) == [type |-> "responds", status |-> s, text |-> t, error |-> NoError]

CreateStatuses == {200, 409, 500}
CommitStatuses == {200, 299, 300, 500}
BodyTexts == SeqsUpTo(BodyChars, MaxBodyLen)

CreateOutcomes ==
    {FetchThrows(e) : e \in Errors}
        \cup {Responds(s, <<"1">>) : s \in CreateStatuses}
        \cup {TextThrows(500, e) : e \in Errors}

CommitOutcomes ==
    {FetchThrows(e) : e \in Errors}
        \cup {Responds(s, t) : s \in CommitStatuses, t \in BodyTexts}
        \cup {TextThrows(200, e) : e \in Errors}

----------------------------------------------------------------------------
(* Reading the commit response *)

\* response.ok
Ok(status) == status >= 200 /\ status < 300

RECURSIVE Number(_)
Number(cs) == IF cs = <<>> THEN 0 ELSE 10 * Number(SubSeq(cs, 1, Len(cs) - 1)) + 1

IsNumber(cs) == cs # <<>> /\ \A i \in 1..Len(cs) : cs[i] = "1"

\* JSON.parse on the texts of BodyTexts: numbers and nested one-element arrays
RECURSIVE JSONparse(_)
JSONparse(cs) ==
    IF IsNumber(cs) THEN [ok |-> TRUE, value |-> Number(cs)]
    ELSE IF Len(cs) >= 2 /\ cs[1] = "[" /\ cs[Len(cs)] = "]" THEN
        IF Len(cs) = 2 THEN [ok |-> TRUE, value |-> <<>>]
        ELSE LET inner == JSONparse(SubSeq(cs, 2, Len(cs) - 1)) IN
             IF inner.ok THEN [ok |-> TRUE, value |-> <<inner.value>>]
             ELSE [ok |-> FALSE, value |-> 0]
    ELSE [ok |-> FALSE, value |-> 0]

\* parsedResponse: null unless the text parses
ParsedResponse(text) ==
    LET p == JSONparse(text) IN IF p.ok THEN Some(p.value) ELSE Undefined

\* results.filter(r => r.success).length
RECURSIVE SuccessCount(_)
SuccessCount(rs) ==
    IF rs = <<>> THEN 0
    ELSE (IF rs[1].success THEN 1 ELSE 0) + SuccessCount(Tail(rs))

----------------------------------------------------------------------------
(* Responses *)

MissingParametersResponse ==
    [status |-> 400,
     json |-> [error |-> "token, username, repo e files são obrigatórios"]]

NoValidFilesResponse(rs) ==
    [status |-> 400,
     json |-> [success |-> FALSE,
               message |-> "Nenhum arquivo válido para upload",
               results |-> rs]]

\* Variant: the success answer leaves the endpoint and the count out
SuccessResponse_bare(q, rs, ops, url, text) ==
    [status |-> 200,
     json |-> [success |-> TRUE,
               message |-> ToString(SuccessCount(rs)) \o "/"
                            \o ToString(Len(q.files[1]))
                            \o " arquivos enviados com sucesso",
               results |-> rs,
               response |-> Str(text),
               parsedResponse |-> ParsedResponse(text),
               target |-> Target(q)]]

SuccessResponse(q, rs, ops, url, text) ==
    [status |-> 200,
     json |-> [success |-> TRUE,
               message |-> ToString(SuccessCount(rs)) \o "/"
                            \o ToString(Len(q.files[1]))
                            \o " arquivos enviados com sucesso",
               results |-> rs,
               response |-> Str(text),
               parsedResponse |-> ParsedResponse(text),
               target |-> Target(q),
               commitUrl |-> url,
               operationsCount |-> Len(ops)]]

\* Variant: a remote failure is answered with a fixed status
RemoteFailureResponse_fixed(q, rs, ops, url, status, text) ==
    [status |-> 502,
     json |-> [success |-> FALSE,
               message |-> "Erro no commit (" \o ToString(status) \o "): "
                            \o Str(text),
               status |-> status,
               results |-> rs,
               target |-> Target(q),
               commitUrl |-> url,
               operationsCount |-> Len(ops)]]

RemoteFailureResponse(q, rs, ops, url, status, text) ==
    [status |-> status,
     json |-> [success |-> FALSE,
               message |-> "Erro no commit (" \o ToString(status) \o "): "
                            \o Str(text),
               status |-> status,
               results |-> rs,
               target |-> Target(q),
               commitUrl |-> url,
               operationsCount |-> Len(ops)]]

\* Variant: the error's message is withheld
InternalErrorResponse_hidden(q, err) ==
    [status |-> 500,
     json |-> [success |-> FALSE,
               message |-> "Erro interno",
               target |-> Target(q),
               stack |-> err.stack]]

InternalErrorResponse(q, err) ==
    [status |-> 500,
     json |-> [success |-> FALSE,
               message |-> "Erro interno: " \o err.message,
               target |-> Target(q),
               stack |-> err.stack]]

\* Variant: a body that does not parse is an error
CommitResponse_parseEscalates(q, rs, ops, url, outcome) ==
    IF outcome.type # "responds" THEN InternalErrorResponse(q, outcome.error)
    ELSE IF Ok(outcome.status) THEN
        IF JSONparse(outcome.text).ok
        THEN SuccessResponse(q, rs, ops, url, outcome.text)
        ELSE InternalErrorResponse(q, [message |-> "Unexpected token",
                                       stack |-> "SyntaxError: Unexpected token"])
    ELSE RemoteFailureResponse(q, rs, ops, url, outcome.status, outcome.text)

\* Lines 219-272: what the handler answers to an outcome of the commit call
CommitResponse(q, rs, ops, url, outcome) ==
    IF outcome.type # "responds" THEN InternalErrorResponse(q, outcome.error)
    ELSE IF Ok(outcome.status) THEN SuccessResponse(q, rs, ops, url, outcome.text)
    ELSE RemoteFailureResponse(q, rs, ops, url, outcome.status, outcome.text)

----------------------------------------------------------------------------
(* The handler of POST /api/proxy-upload *)

\* The handlers running: one per request received
Handlers == DOMAIN pc

\* The handlers H are entered, each with a request of Q
Entered(H, Q) ==
    /\ pc = [r \in H |-> "start"]
    /\ req \in [H -> Q]
    /\ results = [r \in H |-> <<>>]
    /\ operations = [r \in H |-> <<>>]
    /\ commitUrl = [r \in H |-> Undefined]
    /\ requestBody = [r \in H |-> Undefined]
    /\ net = <<>>
    /\ res = [r \in H |-> <<>>]

\* One request
Init == Entered({1}, Requests)

\* One request with one file, whose bytes are followed in full: every buffer of
\* up to MaxBufferLen bytes among 0, 105 and 255, and every byte value alone,
\* doubled and tripled
SampleBytes == {0, 105, 255}

Base64Buffers ==
    SeqsUpTo(SampleBytes, MaxBufferLen)
        \cup {<<b>> : b \in 0..255}
        \cup {<<b, b>> : b \in 0..255}
        \cup {<<b, b, b>> : b \in 0..255}

Base64Requests ==
    { [token |-> t, username |-> Some("alice"), repo |-> Some("demo"),
       spaceId |-> sp,
       files |-> Some(<< [originalname |-> n, size |-> Len(b), buffer |-> b] >>)] :
        t \in Tokens, sp \in Optional({"org/demo-space"}),
        n \in {Undefined, Some(<<"a">>)}, b \in Base64Buffers }

InitBase64 == Entered({1}, Base64Requests)

\* Two requests in flight at once; each call then comes to one of a few outcomes
ConcurrentFileLists ==
    { << [originalname |-> Some(<<"a">>), size |-> MaxFileSize + 1,
          buffer |-> <<104, 105>>] >>,
      << [originalname |-> Some(<<"a">>), size |-> MaxFileSize,
          buffer |-> <<104, 105>>] >>,
      << [originalname |-> Undefined, size |-> MaxFileSize,
          buffer |-> <<104, 105>>],
         [originalname |-> Some(<<" ", "a", " ">>), size |-> MaxFileSize,
          buffer |-> <<104, 105>>] >> }

ConcurrentRequests ==
    [token : Tokens, username : {Some("alice")}, repo : {Some("demo")},
     spaceId : Optional({"org/demo-space"}),
     files : {Some(fs) : fs \in ConcurrentFileLists}]

InitConcurrent == Entered({1, 2}, ConcurrentRequests)

ConcurrentCreateOutcomes ==
    {FetchThrows(e) : e \in Errors} \cup {Responds(200, <<"1">>)}

ConcurrentCommitOutcomes ==
    {FetchThrows(e) : e \in Errors}
        \cup {Responds(200, <<"1">>), Responds(500, <<"[">>)}

\* What the provisioning call, and the commit call, of a handler can come to
PossibleCreateOutcomes ==
    IF Cardinality(Handlers) > 1 THEN ConcurrentCreateOutcomes ELSE CreateOutcomes

PossibleCommitOutcomes ==
    IF Cardinality(Handlers) > 1 THEN ConcurrentCommitOutcomes ELSE CommitOutcomes

\* res.status(..).json(..), which ends the handler
\* Variant: the answer is sent a second time
Reply_twice(r, response) ==
    /\ res' = [res EXCEPT ![r] = @ \o <<response, response>>]
    /\ pc' = [pc EXCEPT ![r] = "done"]

Reply(r, response) ==
    /\ res' = [res EXCEPT ![r] = Append(@, response)]
    /\ pc' = [pc EXCEPT ![r] = "done"]

\* Lines 32-34
ReplyMissingParameters(r) ==
    /\ pc[r] = "start"
    /\ MissingParameters(req[r])
    /\ Reply(r, MissingParametersResponse)
    /\ UNCHANGED <<req, results, operations, commitUrl, requestBody, net>>

\* Lines 36-105: the loop leaves no operation
ReplyNoValidFiles(r) ==
    /\ pc[r] = "start"
    /\ ~MissingParameters(req[r])
    /\ LET done == ProcessFiles(req[r].files[1]) IN
        /\ NoValidFiles(done.operations)
        /\ results' = [results EXCEPT ![r] = done.results]
        /\ operations' = [operations EXCEPT ![r] = done.operations]
        /\ Reply(r, NoValidFilesResponse(done.results))
    /\ UNCHANGED <<req, commitUrl, requestBody, net>>

\* Lines 36-137 and 209: the loop, then the commit to the space is sent
CommitToSpace(r) ==
    /\ pc[r] = "start"
    /\ ~MissingParameters(req[r])
    /\ LET done == ProcessFiles(req[r].files[1])
           url == SpaceCommitUrl(req[r])
           body == SpaceBody(done.operations)
       IN
        /\ ~NoValidFiles(done.operations)
        /\ Truthy(req[r].spaceId)
        /\ results' = [results EXCEPT ![r] = done.results]
        /\ operations' = [operations EXCEPT ![r] = done.operations]
        /\ commitUrl' = [commitUrl EXCEPT ![r] = Some(url)]
        /\ requestBody' = [requestBody EXCEPT ![r] = Some(body)]
        /\ net' = Append(net, Request(r, "commit", url, req[r], body))
    /\ pc' = [pc EXCEPT ![r] = "awaitCommit"]
    /\ UNCHANGED <<req, res>>

\* Variant: the repository is committed to without being provisioned
CreateRepository_skipping(r) ==
    /\ pc[r] = "start"
    /\ ~MissingParameters(req[r])
    /\ LET done == ProcessFiles(req[r].files[1])
           url == RepoCommitUrl(req[r])
           body == RepoBody(done.operations)
       IN
        /\ ~NoValidFiles(done.operations)
        /\ ~Truthy(req[r].spaceId)
        /\ results' = [results EXCEPT ![r] = done.results]
        /\ operations' = [operations EXCEPT ![r] = done.operations]
        /\ commitUrl' = [commitUrl EXCEPT ![r] = Some(url)]
        /\ requestBody' = [requestBody EXCEPT ![r] = Some(body)]
        /\ net' = Append(net, Request(r, "commit", url, req[r], body))
    /\ pc' = [pc EXCEPT ![r] = "awaitCommit"]
    /\ UNCHANGED <<req, res>>

\* Variant: `results` is one array for all the handlers
CreateRepository_sharedResults(r) ==
    /\ pc[r] = "start"
    /\ ~MissingParameters(req[r])
    /\ LET done == ProcessFiles(req[r].files[1])
           others == Handlers \ {r}
           pushed == IF others = {} THEN <<>>
                     ELSE results[CHOOSE o \in others : TRUE]
       IN
        /\ ~NoValidFiles(done.operations)
        /\ ~Truthy(req[r].spaceId)
        /\ results' = [results EXCEPT ![r] = pushed \o done.results]
        /\ operations' = [operations EXCEPT ![r] = done.operations]
        /\ net' = Append(net, Request(r, "create", CreateUrl, req[r],
                                      CreateBody(req[r])))
    /\ pc' = [pc EXCEPT ![r] = "awaitCreate"]
    /\ UNCHANGED <<req, commitUrl, requestBody, res>>

\* Lines 36-113 and 137-154: the loop, then the provisioning call is sent
CreateRepository(r) ==
    /\ pc[r] = "start"
    /\ ~MissingParameters(req[r])
    /\ LET done == ProcessFiles(req[r].files[1]) IN
        /\ ~NoValidFiles(done.operations)
        /\ ~Truthy(req[r].spaceId)
        /\ results' = [results EXCEPT ![r] = done.results]
        /\ operations' = [operations EXCEPT ![r] = done.operations]
        /\ net' = Append(net, Request(r, "create", CreateUrl, req[r],
                                      CreateBody(req[r])))
    /\ pc' = [pc EXCEPT ![r] = "awaitCreate"]
    /\ UNCHANGED <<req, commitUrl, requestBody, res>>

\* Variant: a provisioning call that fails, or answers neither 200 nor 409,
\* ends the handler
CreateSettles_aborting(r) ==
    /\ pc[r] = "awaitCreate"
    /\ \E outcome \in PossibleCreateOutcomes :
        LET url == RepoCommitUrl(req[r])
            body == RepoBody(operations[r])
        IN IF outcome.type = "responds" /\ outcome.status \in {200, 409} THEN
                /\ commitUrl' = [commitUrl EXCEPT ![r] = Some(url)]
                /\ requestBody' = [requestBody EXCEPT ![r] = Some(body)]
                /\ net' = net \o << Settled(r, "create", outcome),
                                    Request(r, "commit", url, req[r], body) >>
                /\ pc' = [pc EXCEPT ![r] = "awaitCommit"]
                /\ UNCHANGED res
           ELSE
                /\ net' = Append(net, Settled(r, "create", outcome))
                /\ Reply(r, InternalErrorResponse(req[r],
                        [message |-> "create failed", stack |-> "Error"]))
                /\ UNCHANGED <<commitUrl, requestBody>>
    /\ UNCHANGED <<req, results, operations>>

\* Lines 143-217: the provisioning call settles; whatever its outcome the
\* commit to the repository is sent
CreateSettles(r) ==
    /\ pc[r] = "awaitCreate"
    /\ \E outcome \in PossibleCreateOutcomes :
        LET url == RepoCommitUrl(req[r])
            body == RepoBody(operations[r])
        IN
            /\ commitUrl' = [commitUrl EXCEPT ![r] = Some(url)]
            /\ requestBody' = [requestBody EXCEPT ![r] = Some(body)]
            /\ net' = net \o << Settled(r, "create", outcome),
                                Request(r, "commit", url, req[r], body) >>
    /\ pc' = [pc EXCEPT ![r] = "awaitCommit"]
    /\ UNCHANGED <<req, results, operations, res>>

\* Variant: a commit that is not answered with success is sent again
CommitSettles_retrying(r) ==
    /\ pc[r] = "awaitCommit"
    /\ \E outcome \in PossibleCommitOutcomes :
        IF outcome.type = "responds" /\ Ok(outcome.status) THEN
            /\ net' = Append(net, Settled(r, "commit", outcome))
            /\ Reply(r, CommitResponse(req[r], results[r], operations[r],
                                       commitUrl[r][1], outcome))
        ELSE
            /\ net' = net \o << Settled(r, "commit", outcome),
                                Request(r, "commit", commitUrl[r][1], req[r],
                                        requestBody[r][1]) >>
            /\ UNCHANGED <<pc, res>>
    /\ UNCHANGED <<req, results, operations, commitUrl, requestBody>>

\* Lines 209-272: the commit call settles and the handler answers
CommitSettles(r) ==
    /\ pc[r] = "awaitCommit"
    /\ \E outcome \in PossibleCommitOutcomes :
        /\ net' = Append(net, Settled(r, "commit", outcome))
        /\ Reply(r, CommitResponse(req[r], results[r], operations[r],
                                   commitUrl[r][1], outcome))
    /\ UNCHANGED <<req, results, operations, commitUrl, requestBody>>

Next ==
    \E r \in Handlers :
        \/ ReplyMissingParameters(r)
        \/ ReplyNoValidFiles(r)
        \/ CommitToSpace(r)
        \/ CreateRepository(r)
        \/ CreateSettles(r)
        \/ CommitSettles(r)

Spec == Init /\ [][Next]_vars

\* The handler's continuations are run, and every call sent settles
SpecLive == Init /\ [][Next]_vars /\ WF_vars(Next)

SpecConcurrent == InitConcurrent /\ [][Next]_vars

SpecBase64 == InitBase64 /\ [][Next]_vars

----------------------------------------------------------------------------
(* Observations on a state, used to state the properties below *)

\* Positions in net of the calls handler r has sent
SentBy(r) == {i \in 1..Len(net) : net[i].req = r /\ net[i].ev = "request"}

SentCalls(r, call) == {i \in SentBy(r) : net[i].call = call}

\* Positions in net where a call of handler r settled
SettledCalls(r, call) ==
    {i \in 1..Len(net) : net[i].req = r /\ net[i].ev = "settled" /\ net[i].call = call}

HasSettled(r, call) == SettledCalls(r, call) # {}

OutcomeOf(r, call) == net[CHOOSE i \in SettledCalls(r, call) : TRUE].outcome

Answered(r) == pc[r] = "done" /\ Len(res[r]) = 1

\* A required field counts as absent when it has no non-empty value, the file
\* list when it is missing or empty; a space identifier is present otherwise
Absent(o) == o = Undefined \/ (o # Undefined /\ o[1] = "")
NoFiles(q) == q.files = Undefined \/ (q.files # Undefined /\ q.files[1] = <<>>)
Incomplete(q) == Absent(q.token) \/ Absent(q.username) \/ Absent(q.repo) \/ NoFiles(q)

TooLargeReason == "Arquivo muito grande (>100MB)"
InvalidNameReason == "Nome de arquivo inválido"

\* The name of a file is missing, empty, or only whitespace
BlankName(file) ==
    \/ file.originalname = Undefined
    \/ (file.originalname # Undefined
            /\ \A i \in 1..Len(file.originalname[1]) : file.originalname[1][i] = " ")

\* The files of handler r have been through the loop
Looped(r) == ~Incomplete(req[r]) /\ pc[r] # "start"

FilesOf(r) == req[r].files[1]

\* The outcomes of files 1..i that are accepted
AcceptedUpTo(r, i) == {j \in 1..i : results[r][j].success}

----------------------------------------------------------------------------
(* C1: a request in which token, username or repo is absent, or the file   *)
(* list is absent or empty, is answered with status 400 and no outbound     *)
(* call is ever sent for it, whatever spaceId is.                           *)
C1_MissingParametersRefused ==
    \A r \in Handlers :
        Incomplete(req[r]) =>
            /\ SentBy(r) = {}
            /\ pc[r] = "done" => /\ Len(res[r]) = 1
                                 /\ res[r][1].status = 400

C1_Witness ==
    \E r \in Handlers :
        /\ Incomplete(req[r])
        /\ Truthy(req[r].spaceId)
        /\ Answered(r)

\* The request is complete and each of its files is too large or has no name
AllRejected(q) ==
    /\ ~Incomplete(q)
    /\ \A i \in 1..Len(q.files[1]) :
            \/ q.files[1][i].size > 104857600
            \/ BlankName(q.files[1][i])

(* C2: when the scalar parameters are present, the file list is not empty   *)
(* and every file is rejected, the answer has status 400 and success=false  *)
(* and carries a non-empty outcome list whose entries are all rejections,   *)
(* and no outbound call is sent.                                            *)
C2_NoValidFilesRefused ==
    \A r \in Handlers :
        AllRejected(req[r]) =>
            /\ SentBy(r) = {}
            /\ pc[r] = "done" =>
                /\ Len(res[r]) = 1
                /\ res[r][1].status = 400
                /\ res[r][1].json.success = FALSE
                /\ "results" \in DOMAIN res[r][1].json
                /\ Len(res[r][1].json.results) > 0
                /\ \A i \in 1..Len(res[r][1].json.results) :
                        ~res[r][1].json.results[i].success

C2_Witness ==
    \E r \in Handlers :
        /\ AllRejected(req[r])
        /\ Answered(r)
        /\ Len(res[r][1].json.results) = 2

(* C3: a file is rejected as too large exactly when its size is greater     *)
(* than 104857600: such a file gets a rejection with the oversize reason    *)
(* and no write operation, and a file of exactly 104857600 bytes with a     *)
(* valid name is accepted and gets a write operation.                       *)
C3_TooLargeExactlyAboveLimit ==
    \A r \in Handlers :
        Looped(r) =>
            /\ Len(results[r]) = Len(FilesOf(r))
            /\ Len(operations[r]) = Cardinality(AcceptedUpTo(r, Len(FilesOf(r))))
            /\ \A i \in 1..Len(FilesOf(r)) :
                LET file == FilesOf(r)[i]
                    outcome == results[r][i]
                IN
                    /\ (file.size > 104857600) <=>
                            (~outcome.success /\ outcome.error = TooLargeReason)
                    /\ (file.size = 104857600 /\ ~BlankName(file)) =>
                            /\ outcome.success
                            /\ operations[r][Cardinality(AcceptedUpTo(r, i))].path
                                    = Str(trim(file.originalname[1]))

C3_Witness ==
    \E r \in Handlers :
        /\ Looped(r)
        /\ Len(FilesOf(r)) = 2
        /\ FilesOf(r)[1].size = 104857601
        /\ FilesOf(r)[2].size = 104857600
        /\ results[r][2].success
        /\ Len(operations[r]) = 1

(* C4, as stated: every file whose name is absent or empty after trimming   *)
(* is rejected with the invalid-name reason, whatever its size.             *)
C4_BlankNameAlwaysInvalidName ==
    \A r \in Handlers :
        Looped(r) =>
            \A i \in 1..Len(FilesOf(r)) :
                BlankName(FilesOf(r)[i]) =>
                    /\ ~results[r][i].success
                    /\ results[r][i].error = InvalidNameReason

(* C4, amended: every file of at most 104857600 bytes whose name is absent  *)
(* or empty after trimming is rejected with the invalid-name reason; a      *)
(* larger file with such a name is rejected with the oversize reason.       *)
C4_BlankNameInvalidUnlessTooLarge ==
    \A r \in Handlers :
        Looped(r) =>
            \A i \in 1..Len(FilesOf(r)) :
                BlankName(FilesOf(r)[i]) =>
                    /\ ~results[r][i].success
                    /\ results[r][i].error =
                            IF FilesOf(r)[i].size <= 104857600
                            THEN InvalidNameReason ELSE TooLargeReason

C4_Witness ==
    \E r \in Handlers :
        /\ Looped(r)
        /\ \E i \in 1..Len(FilesOf(r)) :
            /\ FilesOf(r)[i].originalname = Some(<<" ">>)
            /\ FilesOf(r)[i].size = 104857600
            /\ results[r][i].error = InvalidNameReason

(* C5: when spaceId is present, every outbound call of the request is a     *)
(* POST to https://huggingface.co/api/spaces/{spaceId}/commit/main with a    *)
(* payload {files: [{path, content, encoding}], summary}; there is at most   *)
(* one such call, exactly one once the request is dispatched, and neither    *)
(* the provisioning call nor the repository commit is ever sent.             *)
C5_SpaceTargetOnly ==
    \A r \in Handlers :
        ~Absent(req[r].spaceId) =>
            /\ Cardinality(SentBy(r)) <= 1
            /\ (Looped(r) /\ Len(operations[r]) > 0) => Cardinality(SentBy(r)) = 1
            /\ \A i \in SentBy(r) :
                /\ net[i].call = "commit"
                /\ net[i].method = "POST"
                /\ net[i].url = "https://huggingface.co/api/spaces/"
                                    \o req[r].spaceId[1] \o "/commit/main"
                /\ DOMAIN net[i].body = {"files", "summary"}
                /\ Len(net[i].body.files) = Len(operations[r])
                /\ \A k \in 1..Len(net[i].body.files) :
                    /\ DOMAIN net[i].body.files[k] = {"path", "content", "encoding"}
                    /\ net[i].body.files[k].path = operations[r][k].path
                    /\ net[i].body.files[k].content = operations[r][k].content
                    /\ net[i].body.files[k].encoding = "base64"

C5_Witness ==
    \E r \in Handlers :
        /\ ~Absent(req[r].spaceId)
        /\ Answered(r)
        /\ Cardinality(SentBy(r)) = 1
        /\ Len(operations[r]) = 2

(* C6: when spaceId is absent and at least one file is accepted, the        *)
(* provisioning call (POST /api/repos/create) is sent, and it has settled,   *)
(* with a response or a failure, before the commit call to                   *)
(* /api/repos/{username}/{repo}/commit/main is sent.                         *)
C6_ProvisioningBeforeCommit ==
    \A r \in Handlers :
        (Absent(req[r].spaceId) /\ Looped(r) /\ Len(operations[r]) > 0) =>
            /\ Cardinality(SentCalls(r, "create")) = 1
            /\ \A i \in SentCalls(r, "create") :
                /\ net[i].url = "https://huggingface.co/api/repos/create"
                /\ net[i].method = "POST"
            /\ pc[r] = "awaitCreate" => SentCalls(r, "commit") = {}
            /\ \A j \in SentCalls(r, "commit") :
                /\ net[j].url = "https://huggingface.co/api/repos/"
                        \o req[r].username[1] \o "/" \o req[r].repo[1] \o "/commit/main"
                /\ \E i \in SentCalls(r, "create"), k \in SettledCalls(r, "create") :
                        i < k /\ k < j

C6_Witness ==
    \E r \in Handlers :
        /\ Absent(req[r].spaceId)
        /\ pc[r] = "awaitCommit"
        /\ SentCalls(r, "commit") # {}
        /\ OutcomeOf(r, "create").type = "fetchThrows"

(* C7: in repository mode, whatever the provisioning call came to (200,     *)
(* 409, another status, a transport failure), the commit call is sent next,  *)
(* to the same endpoint and with the same payload, and the answer to the     *)
(* caller is the one the commit call's outcome alone determines.             *)
C7_ProvisioningNeverBlocks ==
    \A r \in Handlers :
        (Absent(req[r].spaceId) /\ HasSettled(r, "create")) =>
            /\ \A k \in SettledCalls(r, "create") :
                /\ k + 1 \in SentCalls(r, "commit")
                /\ net[k + 1].url = "https://huggingface.co/api/repos/"
                        \o req[r].username[1] \o "/" \o req[r].repo[1] \o "/commit/main"
                /\ net[k + 1].body = RepoBody(ProcessFiles(FilesOf(r)).operations)
            /\ pc[r] = "done" =>
                /\ HasSettled(r, "commit")
                /\ Len(res[r]) = 1
                /\ LET outcome == OutcomeOf(r, "commit") IN
                    /\ res[r][1].status =
                            IF outcome.type # "responds" THEN 500
                            ELSE IF outcome.status \in 200..299 THEN 200
                            ELSE outcome.status
                    /\ res[r][1].json.success =
                            (outcome.type = "responds" /\ outcome.status \in 200..299)
                    /\ res[r][1] = CommitResponse(req[r], results[r], operations[r],
                                                  commitUrl[r][1], outcome)

C7_Witness ==
    \E r \in Handlers :
        /\ Absent(req[r].spaceId)
        /\ Answered(r)
        /\ HasSettled(r, "create")
        /\ OutcomeOf(r, "create").type = "textThrows"
        /\ res[r][1].status = 200
        /\ res[r][1].json.success

(* C8: when the commit call returns a non-success status, the answer has    *)
(* exactly that status, success=false, a status field equal to it, and a     *)
(* message made of the code and the raw body text.                           *)
C8_RemoteStatusPassedThrough ==
    \A r \in Handlers :
        (pc[r] = "done" /\ HasSettled(r, "commit")) =>
            LET outcome == OutcomeOf(r, "commit") IN
            (outcome.type = "responds" /\ outcome.status \notin 200..299) =>
                /\ Len(res[r]) = 1
                /\ res[r][1].status = outcome.status
                /\ res[r][1].json.success = FALSE
                /\ res[r][1].json.status = outcome.status
                /\ res[r][1].json.message =
                        "Erro no commit (" \o ToString(outcome.status) \o "): "
                            \o Str(outcome.text)

C8_Witness ==
    \E r \in Handlers :
        /\ Answered(r)
        /\ HasSettled(r, "commit")
        /\ OutcomeOf(r, "commit") = Responds(300, <<"[">>)
        /\ res[r][1].status = 300

\* The answer of the outer catch
IsInternalError(response) ==
    /\ response.status = 500
    /\ "stack" \in DOMAIN response.json

(* C9: a commit call that fails at transport level is answered with status  *)
(* 500, success=false and a message carrying the error's message; and an     *)
(* answer is the internal error only then: a 500 is never due to the         *)
(* provisioning call, it is either this or a 500 the commit call returned.   *)
C9_OnlyCommitFailureIsInternalError ==
    \A r \in Handlers :
        pc[r] = "done" =>
            /\ HasSettled(r, "commit") =>
                LET outcome == OutcomeOf(r, "commit") IN
                /\ outcome.type # "responds" =>
                    /\ Len(res[r]) = 1
                    /\ res[r][1].status = 500
                    /\ res[r][1].json.success = FALSE
                    /\ res[r][1].json.message = "Erro interno: " \o outcome.error.message
                /\ outcome.type = "responds" => ~IsInternalError(res[r][1])
            /\ \A i \in 1..Len(res[r]) :
                res[r][i].status = 500 =>
                    /\ HasSettled(r, "commit")
                    /\ \/ OutcomeOf(r, "commit").type # "responds"
                       \/ OutcomeOf(r, "commit").status = 500

C9_Witness ==
    \E r \in Handlers :
        /\ Answered(r)
        /\ HasSettled(r, "commit")
        /\ OutcomeOf(r, "commit").type = "fetchThrows"
        /\ IsInternalError(res[r][1])

(* C10: the request is reported as succeeded exactly when the commit call's *)
(* status is in 200..299, whatever the body: with such a status the answer   *)
(* has status 200 and success=true and returns the raw body text unchanged,  *)
(* and parsedResponse is null when the body is not valid JSON.               *)
C10_SuccessByStatusAlone ==
    \A r \in Handlers :
        (pc[r] = "done" /\ HasSettled(r, "commit")) =>
            LET outcome == OutcomeOf(r, "commit") IN
            outcome.type = "responds" =>
                /\ Len(res[r]) = 1
                /\ res[r][1].json.success = (outcome.status \in 200..299)
                /\ outcome.status \in 200..299 =>
                    /\ res[r][1].status = 200
                    /\ res[r][1].json.response = Str(outcome.text)
                    /\ ~JSONparse(outcome.text).ok =>
                            res[r][1].json.parsedResponse = Undefined

C10_Witness ==
    \E r \in Handlers :
        /\ Answered(r)
        /\ HasSettled(r, "commit")
        /\ OutcomeOf(r, "commit") = Responds(299, <<"[">>)
        /\ res[r][1].status = 200
        /\ res[r][1].json.success
        /\ res[r][1].json.parsedResponse = Undefined

----------------------------------------------------------------------------
\* The traffic of handler r alone, in order
TrafficOf(r) == SelectSeq(net, LAMBDA e : e.req = r)

\* What handler r has done so far, worked out from its own request and from
\* what its own calls came to
AsIfAlone(r) ==
    LET q == req[r]
        mine == TrafficOf(r)
    IN
    IF pc[r] = "start" THEN
        mine = <<>> /\ res[r] = <<>> /\ results[r] = <<>> /\ operations[r] = <<>>
    ELSE IF Incomplete(q) THEN
        mine = <<>> /\ res[r] = <<MissingParametersResponse>>
    ELSE
        LET done == ProcessFiles(q.files[1])
            spaceUrl == "https://huggingface.co/api/spaces/" \o Interp(q.spaceId)
                            \o "/commit/main"
            repoUrl == "https://huggingface.co/api/repos/" \o q.username[1] \o "/"
                            \o q.repo[1] \o "/commit/main"
        IN
        /\ results[r] = done.results
        /\ operations[r] = done.operations
        /\ IF done.operations = <<>> THEN
                mine = <<>> /\ res[r] = <<NoValidFilesResponse(done.results)>>
           ELSE IF ~Absent(q.spaceId) THEN
                /\ Len(mine) = (IF pc[r] = "done" THEN 2 ELSE 1)
                /\ mine[1] = Request(r, "commit", spaceUrl, q, SpaceBody(done.operations))
                /\ pc[r] = "awaitCommit" => res[r] = <<>>
                /\ pc[r] = "done" =>
                    /\ mine[2].ev = "settled" /\ mine[2].call = "commit"
                    /\ res[r] = << CommitResponse(q, done.results, done.operations,
                                                  spaceUrl, mine[2].outcome) >>
           ELSE
                /\ Len(mine) = (IF pc[r] = "done" THEN 4
                                ELSE IF pc[r] = "awaitCommit" THEN 3 ELSE 1)
                /\ mine[1] = Request(r, "create", CreateUrl, q, CreateBody(q))
                /\ pc[r] # "done" => res[r] = <<>>
                /\ Len(mine) >= 3 =>
                    /\ mine[2].ev = "settled" /\ mine[2].call = "create"
                    /\ mine[3] = Request(r, "commit", repoUrl, q,
                                         RepoBody(done.operations))
                /\ pc[r] = "done" =>
                    /\ mine[4].ev = "settled" /\ mine[4].call = "commit"
                    /\ res[r] = << CommitResponse(q, done.results, done.operations,
                                                  repoUrl, mine[4].outcome) >>

(* C11: requests in flight at once are independent: however the steps of    *)
(* two handlers interleave at their calls, the calls, the outcome list, the  *)
(* operation batch and the answer of each are those of that request alone,   *)
(* determined by its own request and by what its own calls came to.          *)
C11_RequestsIndependent == \A r \in Handlers : AsIfAlone(r)

C11_Witness ==
    /\ Cardinality(Handlers) = 2
    /\ \A r \in Handlers : Answered(r)
    /\ req[1] # req[2]
    /\ results[1] # results[2]
    /\ \E i, j, k, l \in 1..Len(net) :
        /\ i < j /\ j < k /\ k < l
        /\ net[i].req = 1 /\ net[j].req = 2 /\ net[k].req = 1 /\ net[l].req = 2

----------------------------------------------------------------------------
(* Decoding base64 text: four characters give three bytes, and the last     *)
(* group, cut short by "=" or by the end, gives one or two.                 *)

Base64Value(c) == CHOOSE v \in 0..63 : Base64Alphabet[v + 1] = c

RECURSIVE WithoutPadding(_)
WithoutPadding(cs) ==
    IF cs # <<>> /\ cs[Len(cs)] = "="
    THEN WithoutPadding(SubSeq(cs, 1, Len(cs) - 1)) ELSE cs

RECURSIVE DecodeGroups(_)
DecodeGroups(cs) ==
    IF Len(cs) < 2 THEN <<>>
    ELSE LET first == Base64Value(cs[1]) * 4 + Base64Value(cs[2]) \div 16 IN
         IF Len(cs) = 2 THEN <<first>>
         ELSE LET second == (Base64Value(cs[2]) % 16) * 16 + Base64Value(cs[3]) \div 4 IN
              IF Len(cs) = 3 THEN <<first, second>>
              ELSE << first, second,
                      (Base64Value(cs[3]) % 4) * 64 + Base64Value(cs[4]) >>
                        \o DecodeGroups(SubSeq(cs, 5, Len(cs)))

fromBase64(cs) == DecodeGroups(WithoutPadding(cs))

(* C12: the base64 content of the write operation of an accepted file,      *)
(* decoded, gives back the bytes of the file exactly, in the operation and   *)
(* in the payload sent: for the empty file, for one byte, and for every      *)
(* byte value 0..255 in each place of a group.                               *)
C12_Base64RoundTrip ==
    \A r \in Handlers :
        (Looped(r) /\ Len(FilesOf(r)) = 1 /\ results[r][1].success) =>
            /\ Len(operations[r]) = 1
            /\ operations[r][1].encoding = "base64"
            /\ fromBase64(operations[r][1].content) = FilesOf(r)[1].buffer
            /\ results[r][1].contentLength = 4 * ((Len(FilesOf(r)[1].buffer) + 2) \div 3)
            /\ \A i \in SentCalls(r, "commit") :
                LET entry == IF "files" \in DOMAIN net[i].body
                             THEN net[i].body.files[1]
                             ELSE net[i].body.operations[1]
                IN fromBase64(entry.content) = FilesOf(r)[1].buffer

C12_Witness ==
    \E r \in Handlers :
        /\ Answered(r)
        /\ SentCalls(r, "commit") # {}
        /\ FilesOf(r)[1].buffer = <<255, 0, 105, 255>>
        /\ operations[r][1].content = <<"/", "w", "B", "p", "/", "w", "=", "=">>

----------------------------------------------------------------------------
(* C13: nothing is retried: whatever its calls come to, a request sends at  *)
(* most one provisioning call and at most one commit call, and exactly one   *)
(* commit call once at least one file was accepted.                          *)
C13_NothingRetried ==
    \A r \in Handlers :
        /\ Cardinality(SentCalls(r, "create")) <= 1
        /\ Cardinality(SentCalls(r, "commit")) <= 1
        /\ Cardinality(SettledCalls(r, "create")) <= 1
        /\ Cardinality(SettledCalls(r, "commit")) <= 1
        /\ (pc[r] = "done" /\ Looped(r) /\ Len(operations[r]) > 0) =>
                Cardinality(SentCalls(r, "commit")) = 1

C13_Witness ==
    \E r \in Handlers :
        /\ Answered(r)
        /\ Cardinality(SentCalls(r, "create")) = 1
        /\ Cardinality(SentCalls(r, "commit")) = 1
        /\ OutcomeOf(r, "create").type = "fetchThrows"
        /\ OutcomeOf(r, "commit") = Responds(500, <<"[">>)

----------------------------------------------------------------------------
\* A file that passes both tests: at most 104857600 bytes, and a name
Acceptable(file) == file.size <= 104857600 /\ ~BlankName(file)

\* The write operation of an acceptable file
OperationFor(file) ==
    [operation |-> "addOrUpdate", path |-> Str(trim(file.originalname[1])),
     content |-> toStringBase64(file.buffer), encoding |-> "base64"]

\* The entries of a payload sent, whichever its shape
EntriesOf(body) ==
    IF "files" \in DOMAIN body THEN body.files ELSE body.operations

(* C14: rejections are isolated: whether a file is accepted, and the write  *)
(* operation built for it, depend on that file alone; a file rejected        *)
(* before or after it never keeps an acceptable file out of the batch that   *)
(* is committed.                                                             *)
C14_RejectionsIsolated ==
    \A r \in Handlers :
        Looped(r) =>
            /\ Len(results[r]) = Len(FilesOf(r))
            /\ \A i \in 1..Len(FilesOf(r)) :
                LET file == FilesOf(r)[i]
                    place == Cardinality({j \in 1..i : Acceptable(FilesOf(r)[j])})
                IN
                /\ results[r][i].success = Acceptable(file)
                /\ Acceptable(file) =>
                    /\ place <= Len(operations[r])
                    /\ operations[r][place] = OperationFor(file)
                    /\ pc[r] # "awaitCreate" =>
                        /\ SentCalls(r, "commit") # {}
                        /\ \A c \in SentCalls(r, "commit") :
                            /\ place <= Len(EntriesOf(net[c].body))
                            /\ EntriesOf(net[c].body)[place].path
                                    = OperationFor(file).path
                            /\ EntriesOf(net[c].body)[place].content
                                    = OperationFor(file).content

C14_Witness ==
    \E r \in Handlers :
        /\ Looped(r)
        /\ Len(FilesOf(r)) = 2
        /\ ~Acceptable(FilesOf(r)[1])
        /\ Acceptable(FilesOf(r)[2])
        /\ \E c \in SentCalls(r, "commit") :
                EntriesOf(net[c].body)[1].path = "a"

----------------------------------------------------------------------------
\* The name an outcome carries for a file
LabelFor(file) ==
    IF file.size <= 104857600
        /\ (file.originalname = Undefined \/ file.originalname = Some(<<>>))
    THEN Some("arquivo-sem-nome")
    ELSE IF file.originalname = Undefined THEN Undefined
    ELSE Some(Str(file.originalname[1]))

(* C15: every answer that carries the outcome list (no valid files, remote  *)
(* success, remote failure) carries exactly one outcome per file supplied,   *)
(* the i-th outcome being that of the i-th file.                             *)
C15_OneOutcomePerFileInOrder ==
    \A r \in Handlers :
        \A k \in 1..Len(res[r]) :
            "results" \in DOMAIN res[r][k].json =>
                LET outcomes == res[r][k].json.results IN
                /\ Len(outcomes) = Len(FilesOf(r))
                /\ \A i \in 1..Len(outcomes) :
                    /\ outcomes[i].file = LabelFor(FilesOf(r)[i])
                    /\ outcomes[i].success = Acceptable(FilesOf(r)[i])
                    /\ ~outcomes[i].success =>
                        outcomes[i].error =
                            IF FilesOf(r)[i].size > 104857600
                            THEN TooLargeReason ELSE InvalidNameReason

C15_Witness ==
    \E r \in Handlers :
        /\ Answered(r)
        /\ "results" \in DOMAIN res[r][1].json
        /\ Len(res[r][1].json.results) = 2
        /\ res[r][1].json.results[1].file = Some(" a ")
        /\ res[r][1].json.results[1].success
        /\ res[r][1].json.results[2].file = Some(" ")
        /\ ~res[r][1].json.results[2].success

----------------------------------------------------------------------------
\* The trimmed names of the acceptable files, in the order of the files
RECURSIVE AcceptablePaths(_)
AcceptablePaths(files) ==
    IF files = <<>> THEN <<>>
    ELSE (IF Acceptable(files[1])
          THEN <<Str(trim(files[1].originalname[1]))>> ELSE <<>>)
            \o AcceptablePaths(Tail(files))

----------------------------------------------------------------------------
\* A commit call to the commit endpoint of the space named by the request
ToSpace(r, c) ==
    /\ req[r].spaceId # Undefined
    /\ net[c].url = "https://huggingface.co/api/spaces/"
                        \o req[r].spaceId[1] \o "/commit/main"
    /\ DOMAIN net[c].body = {"files", "summary"}

\* A commit call to the commit endpoint of the repository named by the request
ToRepository(r, c) ==
    /\ net[c].url = "https://huggingface.co/api/repos/"
                        \o req[r].username[1] \o "/" \o req[r].repo[1]
                        \o "/commit/main"
    /\ DOMAIN net[c].body = {"operations", "commit_title", "commit_message"}

(* C17: for every request that reaches dispatch the endpoint called, the    *)
(* shape of the payload and the target of the answer agree: "space" goes     *)
(* with the space's commit endpoint and {files, summary}, "repository" with  *)
(* the repository's commit endpoint and {operations, commit_title,           *)
(* commit_message}, in the answer with status 500 as in the others.          *)
C17_TargetEndpointPayloadAgree ==
    \A r \in Handlers :
        \A c \in SentCalls(r, "commit") :
            /\ ToSpace(r, c) # ToRepository(r, c)
            /\ ToSpace(r, c) => SentCalls(r, "create") = {}
            /\ commitUrl[r] = Some(net[c].url)
            /\ \A k \in 1..Len(res[r]) :
                /\ "target" \in DOMAIN res[r][k].json
                /\ res[r][k].json.target \in {"space", "repository"}
                /\ res[r][k].json.target = "space" <=> ToSpace(r, c)
                /\ res[r][k].json.target = "repository" <=> ToRepository(r, c)
                /\ "commitUrl" \in DOMAIN res[r][k].json =>
                        res[r][k].json.commitUrl = net[c].url

C17_Witness ==
    \E r \in Handlers :
        \E c \in SentCalls(r, "commit") :
            /\ Answered(r)
            /\ req[r].spaceId = Some("")
            /\ res[r][1].status = 500
            /\ IsInternalError(res[r][1])
            /\ res[r][1].json.target = "repository"
            /\ ToRepository(r, c)

----------------------------------------------------------------------------
\* The fields of the uniform result
UniformFields ==
    {"success", "message", "results", "target", "commitUrl", "operationsCount"}

\* A request whose commit call was sent
Dispatched(r) == SentCalls(r, "commit") # {}

(* C18 as stated: every answer given after dispatch, whether the commit     *)
(* succeeded, was answered with a non-success status or failed at transport  *)
(* level, has the success flag, a message, the per-file outcome list, the    *)
(* target, the commit endpoint and the operation count.                      *)
C18_EveryResultUniform ==
    \A r \in Handlers :
        (Dispatched(r) /\ Answered(r)) =>
            UniformFields \subseteq DOMAIN res[r][1].json

(* C18 amended: an answer given after the commit call returned and its body *)
(* was read has all six fields, with the outcome list, endpoint and count of *)
(* the request; the answer given when the commit call failed has the success *)
(* flag, a message, the target and the stack only.                           *)
C18_ResultUniformWhenCommitAnswered ==
    \A r \in Handlers :
        (Dispatched(r) /\ Answered(r)) =>
            LET json == res[r][1].json IN
            IF OutcomeOf(r, "commit").type = "responds" THEN
                /\ UniformFields \subseteq DOMAIN json
                /\ json.success = Ok(OutcomeOf(r, "commit").status)
                /\ json.results = results[r]
                /\ Len(json.results) = Len(FilesOf(r))
                /\ json.target \in {"space", "repository"}
                /\ Some(json.commitUrl) = commitUrl[r]
                /\ json.operationsCount = Len(operations[r])
            ELSE
                /\ DOMAIN json = {"success", "message", "target", "stack"}
                /\ json.success = FALSE
                /\ res[r][1].status = 500

C18_Witness ==
    \E r \in Handlers :
        /\ Dispatched(r)
        /\ Answered(r)
        /\ OutcomeOf(r, "commit") = Responds(500, <<"[">>)
        /\ UniformFields \subseteq DOMAIN res[r][1].json
        /\ res[r][1].json.operationsCount = 2
        /\ res[r][1].json.target = "space"

----------------------------------------------------------------------------
\* The number of outcomes marked successful in a list of outcomes
Successes(rs) == Cardinality({i \in 1..Len(rs) : rs[i].success})

(* C19: at every point of the loop over the files and in every answer, the  *)
(* number of write operations is the number of outcomes marked successful;   *)
(* no commit call is sent with an empty batch, the payload sent has as many  *)
(* entries as the operationsCount answered, and the message of a success     *)
(* counts the operations over the files supplied.                            *)
C19_OperationsMatchSuccesses ==
    \A r \in Handlers :
        /\ Len(operations[r]) = Successes(results[r])
        /\ ~Incomplete(req[r]) =>
            \A k \in 0..Len(FilesOf(r)) :
                LET sofar == ProcessFiles(SubSeq(FilesOf(r), 1, k)) IN
                /\ Len(sofar.results) = k
                /\ Len(sofar.operations) = Successes(sofar.results)
        /\ \A c \in SentCalls(r, "commit") :
            /\ Len(EntriesOf(net[c].body)) > 0
            /\ Len(EntriesOf(net[c].body)) = Len(operations[r])
        /\ \A k \in 1..Len(res[r]) :
            LET json == res[r][k].json IN
            /\ "results" \in DOMAIN json =>
                    Successes(json.results) = Len(operations[r])
            /\ "operationsCount" \in DOMAIN json =>
                /\ json.operationsCount = Successes(json.results)
                /\ \A c \in SentCalls(r, "commit") :
                        Len(EntriesOf(net[c].body)) = json.operationsCount
                /\ json.success =>
                        json.message =
                            ToString(json.operationsCount) \o "/"
                                \o ToString(Len(FilesOf(r)))
                                \o " arquivos enviados com sucesso"

C19_Witness ==
    \E r \in Handlers :
        /\ Answered(r)
        /\ "operationsCount" \in DOMAIN res[r][1].json
        /\ res[r][1].json.success = TRUE
        /\ res[r][1].json.operationsCount = 1
        /\ Len(res[r][1].json.results) = 2
        /\ res[r][1].json.message = "1/2 arquivos enviados com sucesso"

----------------------------------------------------------------------------
\* At most one answer, and the handler is over exactly when it has answered
AtMostOneResponse ==
    \A r \in Handlers :
        /\ Len(res[r]) <= 1
        /\ pc[r] = "done" <=> Len(res[r]) = 1

\* Once answered, a request sends nothing more and answers nothing more
QuietOnceAnswered ==
    \A r \in Handlers :
        Len(res[r]) >= 1 =>
            /\ res'[r] = res[r]
            /\ TrafficOf(r)' = TrafficOf(r)

(* C20: every request is answered exactly once: on every path (missing      *)
(* parameters, no valid files, remote success, remote failure, transport     *)
(* failure), given that every call sent settles, an answer is eventually     *)
(* sent, never a second one, and no call is sent after the answer.           *)
C20_ExactlyOneResponse ==
    /\ []AtMostOneResponse
    /\ [][QuietOnceAnswered]_vars
    /\ <>[](\A r \in Handlers : Answered(r))

C20_Witness ==
    \E r \in Handlers :
        /\ Answered(r)
        /\ Cardinality(SentCalls(r, "create")) = 1
        /\ OutcomeOf(r, "commit").type = "fetchThrows"
        /\ IsInternalError(res[r][1])
        /\ \A i \in SentBy(r) : HasSettled(r, net[i].call)

====
